---- MODULE Spec2Model ----
(***************************************************************************)
(* Model of the store navigator: the A* grid search of                      *)
(* src/utils/pathfinding.ts (class AStar) and the route assembly of         *)
(* src/App.tsx (generateRoute).                                             *)
(*                                                                          *)
(* Spec      runs one findPath(start, end) call, one loop iteration per     *)
(*           step, over every grid of the bounded family.                   *)
(* RouteSpec runs one generateRoute call, one path segment per step; each   *)
(*           segment is the result of the same search, run to completion.   *)
(***************************************************************************)
EXTENDS Integers, Sequences, FiniteSets, TLC

\* ------------------------------------------------------------------------
\* Bounds of the model
\* ------------------------------------------------------------------------
\* grids handed to findPath in Spec are Width x Height
Width == 5
Height == 2
\* a grid has at most this many blocked cells, or one solid blocked row or column
MaxBlocked == 1
\* in RouteSpec the walkable cells of the store lie in the RouteWidth x
\* RouteHeight corner of the store grid, which is open or has one solid blocked
\* row or column
RouteWidth == 3
RouteHeight == 1
\* at most this many selected aisles per generateRoute call
MaxWaypoints == 2
\* the paths handed to DirectionsPanel have at most this many steps
MaxSteps == 2
\* at most this many playbacks are started in one run of the panel
MaxPlaybacks == 2
\* the path prop of the panel changes at most this many times
MaxPaths == 2

\* ------------------------------------------------------------------------
\* Program constants
\* ------------------------------------------------------------------------
\* the store grid is 20 columns by 15 rows
StoreWidth == 20
StoreHeight == 15
\* largest radius of the nearest-walkable-cell scan
MaxRadius == 5

VARIABLES
    grid,            \* AStar.grid/width/height: [width, height, walkable]
    start,           \* findPath parameter
    end,             \* findPath parameter
    nodes,           \* every Node object pushed to openSet, in creation order
    openSet,         \* findPath local: sequence of Node references (indices of nodes)
    closedSet,       \* findPath local: set of coordinate keys
    expanded,        \* the nodes the loop has removed from openSet, in order
    pc,              \* position of the findPath call: "idle", "loop", "done"
    result,          \* value returned by findPath
    entrance,        \* storeData.entrance
    checkout,        \* storeData.checkout
    fullPath,        \* generateRoute local
    currentPosition, \* generateRoute local
    visited,         \* number of aisles the loop of generateRoute has taken
    reached,         \* aisle positions whose segment was appended, in order
    aislePos,        \* generateRoute: the aisle position the loop took last
    rpc,             \* position of the generateRoute call: "idle", "visit", "done"
    path,            \* App state set by setPath, the path prop of DirectionsPanel
    isMuted,         \* DirectionsPanel state
    isSpeaking,      \* DirectionsPanel state
    pathId,          \* identity of the path array: counts the changes of the prop
    playbacks,       \* one closure per speakInstructions call: steps, idx, path
    synth,           \* queue of window.speechSynthesis; its head is being spoken
    timers,          \* playbacks with a pending setTimeout of utter.onend
    spoken           \* every utterance handed to synth.speak, in order

searchVars == <<start, end, nodes, openSet, closedSet, expanded, pc, result>>
routeVars ==
    <<entrance, checkout, fullPath, currentPosition, visited, reached, aislePos, rpc, path>>
speechVars == <<isMuted, isSpeaking, pathId, playbacks, synth, timers, spoken>>

\* ------------------------------------------------------------------------
\* Positions and the grid
\* ------------------------------------------------------------------------
Pos(px, py) == [x |-> px, y |-> py]

Rect(w, h) == {Pos(i, j) : i \in 0..(w - 1), j \in 0..(h - 1)}

Abs(n) == IF n < 0 THEN -n ELSE n

\* variant: the upper bounds are tested against width - 1 and height - 1
isValidPosition_OffByOne(px, py) ==
    px >= 0 /\ px < grid.width - 1 /\ py >= 0 /\ py < grid.height - 1

isValidPosition(px, py) ==
    px >= 0 /\ px < grid.width /\ py >= 0 /\ py < grid.height

\* variant: the walkable flag is not consulted
isWalkable_Always(px, py) == TRUE

isWalkable(px, py) == Pos(px, py) \in grid.walkable

\* Manhattan distance
calculateDistance(pos1, pos2) == Abs(pos1.x - pos2.x) + Abs(pos1.y - pos2.y)

\* the closed-set key `${x},${y}`
Key(p) == <<p.x, p.y>>

\* variant: the last direction vector has a stray row offset
directions_Diagonal == <<Pos(0, -1), Pos(0, 1), Pos(-1, 0), Pos(1, 1)>>

\* up, down, left, right
directions == <<Pos(0, -1), Pos(0, 1), Pos(-1, 0), Pos(1, 0)>>

\* positions of the neighbour nodes of a node at position p, in push order
getNeighbors(p) ==
    LET cand == [i \in 1..4 |-> Pos(p.x + directions[i].x, p.y + directions[i].y)]
        ok(q) == isValidPosition(q.x, q.y) /\ isWalkable(q.x, q.y)
    IN  SelectSeq(cand, ok)

\* ------------------------------------------------------------------------
\* Path reconstruction and instructions
\* ------------------------------------------------------------------------
NoDirection == "none"
NoInstruction == "none"

\* variant: the row tests are the wrong way round
getDirection_RowsSwapped(from, to) ==
    IF to.y < from.y THEN "down"
    ELSE IF to.y > from.y THEN "up"
    ELSE IF to.x < from.x THEN "left"
    ELSE "right"

getDirection(from, to) ==
    IF to.y < from.y THEN "up"
    ELSE IF to.y > from.y THEN "down"
    ELSE IF to.x < from.x THEN "left"
    ELSE "right"

directionMap(d) ==
    CASE d = "up" -> "north"
      [] d = "down" -> "south"
      [] d = "left" -> "west"
      [] OTHER -> "east"

\* variant: the last step is tested with index = totalSteps
generateInstruction_OffByOne(step, currentDirection, index, totalSteps) ==
    IF index = 0 THEN "Start from entrance"
    ELSE IF index = totalSteps THEN "Arrive at checkout"
    ELSE IF step.direction = NoDirection THEN "Continue forward"
    ELSE IF currentDirection # step.direction
         THEN "Turn " \o directionMap(step.direction)
    ELSE "Continue forward"

generateInstruction(step, currentDirection, index, totalSteps) ==
    IF index = 0 THEN "Start from entrance"
    ELSE IF index = totalSteps - 1 THEN "Arrive at checkout"
    ELSE IF step.direction = NoDirection THEN "Continue forward"
    ELSE IF currentDirection # step.direction
         THEN "Turn " \o directionMap(step.direction)
    ELSE "Continue forward"

\* running currentDirection before step i (1-based) of steps: the direction of
\* the last earlier step that has one
RECURSIVE DirectionBefore(_, _)
DirectionBefore(steps, i) ==
    IF i <= 1 THEN NoDirection
    ELSE IF steps[i - 1].direction # NoDirection THEN steps[i - 1].direction
    ELSE DirectionBefore(steps, i - 1)

addInstructions(steps) ==
    [i \in 1..Len(steps) |->
        [position |-> steps[i].position,
         direction |-> steps[i].direction,
         instruction |->
            generateInstruction(steps[i], DirectionBefore(steps, i), i - 1, Len(steps))]]

\* variant: the start position is not added
RECURSIVE ParentChain_NoStart(_, _)
ParentChain_NoStart(ns, n) ==
    IF ns[n].parent # 0
    THEN Append(ParentChain_NoStart(ns, ns[n].parent),
                [position |-> ns[n].position,
                 direction |-> getDirection(ns[ns[n].parent].position, ns[n].position),
                 instruction |-> NoInstruction])
    ELSE <<>>

\* the steps from the root of the parent chain down to node n, without
\* instructions
RECURSIVE ParentChain(_, _)
ParentChain(ns, n) ==
    IF ns[n].parent # 0
    THEN Append(ParentChain(ns, ns[n].parent),
                [position |-> ns[n].position,
                 direction |-> getDirection(ns[ns[n].parent].position, ns[n].position),
                 instruction |-> NoInstruction])
    ELSE <<[position |-> ns[n].position,
            direction |-> NoDirection,
            instruction |-> NoInstruction]>>

reconstructPath(ns, endNode) == addInstructions(ParentChain(ns, endNode))

\* ------------------------------------------------------------------------
\* findPath
\* ------------------------------------------------------------------------
\* the state of a call: [nodes, openSet, closedSet]
startNode(s, e) ==
    [position |-> s,
     gCost |-> 0,
     hCost |-> calculateDistance(s, e),
     fCost |-> 0 + calculateDistance(s, e),
     parent |-> 0]

InitSearch(s, e) ==
    [nodes |-> <<startNode(s, e)>>, openSet |-> <<1>>, closedSet |-> {}]

\* variant: the fCost comparison is the wrong way round
Lower_Flipped(a, b) ==
    a.fCost > b.fCost \/ (a.fCost = b.fCost /\ a.hCost < b.hCost)

\* the comparison of the lowest-fCost scan: node a replaces node b
Lower(a, b) ==
    a.fCost < b.fCost \/ (a.fCost = b.fCost /\ a.hCost < b.hCost)

\* index in open of the node the scan selects
RECURSIVE ScanLowest(_, _, _, _)
ScanLowest(ns, open, i, current) ==
    IF i > Len(open) THEN current
    ELSE ScanLowest(ns, open, i + 1,
                    IF Lower(ns[open[i]], ns[open[current]]) THEN i ELSE current)

currentIndex(s) == ScanLowest(s.nodes, s.openSet, 2, 1)

RemoveAt(seq, k) == SubSeq(seq, 1, k - 1) \o SubSeq(seq, k + 1, Len(seq))

\* openSet.splice(currentIndex, 1); closedSet.add(key)
PopCurrent(s) ==
    LET k == currentIndex(s)
    IN  [nodes |-> s.nodes,
         openSet |-> RemoveAt(s.openSet, k),
         closedSet |-> s.closedSet \cup {Key(s.nodes[s.openSet[k]].position)}]

\* openSet.find(n => n.position = p): index in open, 0 when there is none
RECURSIVE FindOpen(_, _, _, _)
FindOpen(ns, open, p, i) ==
    IF i > Len(open) THEN 0
    ELSE IF ns[open[i]].position = p THEN i
    ELSE FindOpen(ns, open, p, i + 1)

\* the body of the neighbour loop for one neighbour that is not closed.
\* variant: the step to the neighbour costs nothing
RelaxNeighbor_NoUnitCost(s, current, p, e) ==
    LET tentativeGCost == s.nodes[current].gCost
        existingNode == FindOpen(s.nodes, s.openSet, p, 1)
        neighbor == [position |-> p,
                     gCost |-> tentativeGCost,
                     hCost |-> calculateDistance(p, e),
                     fCost |-> tentativeGCost + calculateDistance(p, e),
                     parent |-> current]
    IN  IF existingNode = 0
        THEN [s EXCEPT !.nodes = Append(@, neighbor),
                       !.openSet = Append(@, Len(s.nodes) + 1)]
        ELSE s

\* The costs and the parent are written to the fresh neighbour object; that
\* object joins openSet only when no node of its position is there, and an
\* existing node is left as it was.
RelaxNeighbor(s, current, p, e) ==
    LET tentativeGCost == s.nodes[current].gCost + 1
        existingNode == FindOpen(s.nodes, s.openSet, p, 1)
        neighbor == [position |-> p,
                     gCost |-> tentativeGCost,
                     hCost |-> calculateDistance(p, e),
                     fCost |-> tentativeGCost + calculateDistance(p, e),
                     parent |-> current]
    IN  IF existingNode = 0
        THEN [s EXCEPT !.nodes = Append(@, neighbor),
                       !.openSet = Append(@, Len(s.nodes) + 1)]
        ELSE s

\* variant: a closed neighbour is not skipped
RECURSIVE CheckNeighbors_NoClosedTest(_, _, _, _, _)
CheckNeighbors_NoClosedTest(s, current, neighbors, i, e) ==
    IF i > Len(neighbors) THEN s
    ELSE CheckNeighbors_NoClosedTest(RelaxNeighbor(s, current, neighbors[i], e),
                                     current, neighbors, i + 1, e)

RECURSIVE CheckNeighbors(_, _, _, _, _)
CheckNeighbors(s, current, neighbors, i, e) ==
    IF i > Len(neighbors) THEN s
    ELSE IF Key(neighbors[i]) \in s.closedSet
         THEN CheckNeighbors(s, current, neighbors, i + 1, e)
    ELSE CheckNeighbors(RelaxNeighbor(s, current, neighbors[i], e),
                        current, neighbors, i + 1, e)

\* one iteration of the while loop that does not return
ExpandCurrent(s, e) ==
    LET current == s.openSet[currentIndex(s)]
    IN  CheckNeighbors(PopCurrent(s), current,
                       getNeighbors(s.nodes[current].position), 1, e)

AtGoal(s, e) == s.nodes[s.openSet[currentIndex(s)]].position = e

RECURSIVE RunSearch(_, _)
RunSearch(s, e) ==
    IF s.openSet = <<>> THEN <<>>
    ELSE IF AtGoal(s, e) THEN reconstructPath(s.nodes, s.openSet[currentIndex(s)])
    ELSE RunSearch(ExpandCurrent(s, e), e)

findPath(s, e) == RunSearch(InitSearch(s, e), e)

\* ------------------------------------------------------------------------
\* Spec: one findPath call, one loop iteration per step
\* ------------------------------------------------------------------------
Cells == Rect(Width, Height)

\* a solid blocked row or a solid blocked column of a w x h area
Walls(w, h) ==
    {{c \in Rect(w, h) : c.y = j} : j \in 0..(h - 1)}
    \cup {{c \in Rect(w, h) : c.x = i} : i \in 0..(w - 1)}

\* the blocked-cell layouts of a w x h area: few blocked cells, or a wall
Blockings(w, h) ==
    {b \in SUBSET Rect(w, h) : Cardinality(b) <= MaxBlocked} \cup Walls(w, h)

Grids ==
    {[width |-> Width, height |-> Height, walkable |-> Cells \ b] :
        b \in Blockings(Width, Height)}

RouteIdle ==
    /\ entrance = Pos(0, 0)
    /\ checkout = Pos(0, 0)
    /\ fullPath = <<>>
    /\ currentPosition = Pos(0, 0)
    /\ visited = 0
    /\ reached = <<>>
    /\ aislePos = Pos(0, 0)
    /\ rpc = "idle"
    /\ path = <<>>

\* the panel as it is mounted: not muted, nothing spoken
SpeechIdle ==
    /\ isMuted = FALSE
    /\ isSpeaking = FALSE
    /\ pathId = 0
    /\ playbacks = <<>>
    /\ synth = <<>>
    /\ timers = {}
    /\ spoken = <<>>

SearchState == [nodes |-> nodes, openSet |-> openSet, closedSet |-> closedSet]

Init ==
    /\ grid \in Grids
    /\ start \in Cells
    /\ end \in Cells
    /\ nodes = InitSearch(start, end).nodes
    /\ openSet = InitSearch(start, end).openSet
    /\ closedSet = InitSearch(start, end).closedSet
    /\ expanded = <<>>
    /\ pc = "loop"
    /\ result = <<>>
    /\ RouteIdle
    /\ SpeechIdle

\* the selected node is not the goal: its neighbours are checked
Expand ==
    /\ pc = "loop"
    /\ openSet # <<>>
    /\ ~AtGoal(SearchState, end)
    /\ LET s == ExpandCurrent(SearchState, end)
       IN  /\ nodes' = s.nodes
           /\ openSet' = s.openSet
           /\ closedSet' = s.closedSet
    /\ expanded' = Append(expanded, openSet[currentIndex(SearchState)])
    /\ UNCHANGED <<grid, start, end, pc, result>>
    /\ UNCHANGED routeVars
    /\ UNCHANGED speechVars

\* the selected node is the goal: return the reconstructed path
ReachGoal ==
    /\ pc = "loop"
    /\ openSet # <<>>
    /\ AtGoal(SearchState, end)
    /\ LET s == PopCurrent(SearchState)
       IN  /\ openSet' = s.openSet
           /\ closedSet' = s.closedSet
    /\ expanded' = Append(expanded, openSet[currentIndex(SearchState)])
    /\ result' = reconstructPath(nodes, openSet[currentIndex(SearchState)])
    /\ pc' = "done"
    /\ UNCHANGED <<grid, start, end, nodes>>
    /\ UNCHANGED routeVars
    /\ UNCHANGED speechVars

\* openSet is empty: no path found
NoPath ==
    /\ pc = "loop"
    /\ openSet = <<>>
    /\ result' = <<>>
    /\ pc' = "done"
    /\ UNCHANGED <<grid, start, end, nodes, openSet, closedSet, expanded>>
    /\ UNCHANGED routeVars
    /\ UNCHANGED speechVars

Next == Expand \/ ReachGoal \/ NoPath

vars == <<grid, searchVars, routeVars, speechVars>>

Spec == Init /\ [][Next]_vars

\* ------------------------------------------------------------------------
\* generateRoute
\* ------------------------------------------------------------------------
\* a selected aisle is the centre of its rectangle; NoAisle stands for an id
\* the catalogue does not have, Null for the null of an unresolved aisle
\* (neither is a cell of the store)
NoAisle == Pos(-1, -1)
Null == Pos(-2, -2)

\* <<dx, dy>> comes before <<ex, ey>> in the scan: dx is the outer loop
ScannedBefore(a, b) == a[1] < b[1] \/ (a[1] = b[1] /\ a[2] <= b[2])

\* the offsets of one radius whose cell is in the store and walkable
Hits(centre, radius) ==
    {d \in (-radius..radius) \X (-radius..radius) :
        LET px == centre.x + d[1]
            py == centre.y + d[2]
        IN  /\ px >= 0 /\ px < StoreWidth /\ py >= 0 /\ py < StoreHeight
            /\ isWalkable(px, py)}

\* nearest walkable cell of an aisle centre, radius by radius
RECURSIVE ScanRadius(_, _)
ScanRadius(centre, radius) ==
    IF radius > MaxRadius THEN Null
    ELSE IF Hits(centre, radius) # {}
         THEN LET d == CHOOSE a \in Hits(centre, radius) :
                          \A b \in Hits(centre, radius) : ScannedBefore(a, b)
              IN  Pos(centre.x + d[1], centre.y + d[2])
    ELSE ScanRadius(centre, radius + 1)

\* variant: the scan starts with the centre itself
aislePosition_FromCentre(aisle) ==
    IF aisle = NoAisle THEN Null ELSE ScanRadius(aisle, 0)

aislePosition(aisle) ==
    IF aisle = NoAisle THEN Null ELSE ScanRadius(aisle, 1)

Tail1(seq) == SubSeq(seq, 2, Len(seq))

\* variant: the first step of a segment is never removed
pathToAdd_NoSlice(full, segmentPath) == segmentPath

\* variant: the last step of a later segment is removed, not the first
pathToAdd_DropLast(full, segmentPath) ==
    IF Len(full) > 0 THEN SubSeq(segmentPath, 1, Len(segmentPath) - 1) ELSE segmentPath

\* the steps of a segment that are pushed to fullPath in the aisle loop
pathToAdd(full, segmentPath) ==
    IF Len(full) > 0 THEN Tail1(segmentPath) ELSE segmentPath

\* variant: the first step of the checkout segment is kept
checkoutToAdd_KeepsJoint(full, checkoutPath) == checkoutPath

\* the steps of the checkout segment that are pushed to fullPath
checkoutToAdd(full, checkoutPath) == Tail1(checkoutPath)

RouteCells == Rect(RouteWidth, RouteHeight)

\* the store grid: 20 x 15, walkable only inside the corner area, which is
\* open or has one wall
StoreGrids ==
    {[width |-> StoreWidth, height |-> StoreHeight, walkable |-> RouteCells \ b] :
        b \in {{}} \cup Walls(RouteWidth, RouteHeight)}

\* aisle centres: on or next to the corner area, one far from every walkable
\* cell, one at the largest radius from the nearest cell of the area, and an
\* aisle id that is not in the catalogue
Aisles ==
    Rect(RouteWidth + 1, RouteHeight + 1)
    \cup {Pos(RouteWidth - 1 + MaxRadius, 0)}
    \cup {Pos(RouteWidth + MaxRadius, RouteHeight + MaxRadius)}
    \cup {NoAisle}

SearchIdle ==
    /\ start = Pos(0, 0)
    /\ end = Pos(0, 0)
    /\ nodes = <<>>
    /\ openSet = <<>>
    /\ closedSet = {}
    /\ expanded = <<>>
    /\ pc = "idle"
    /\ result = <<>>

\* a generateRoute call with at least one selected product (with none the
\* handler returns at once and changes nothing)
RouteInit ==
    /\ grid \in StoreGrids
    /\ entrance \in RouteCells
    /\ checkout \in RouteCells
    /\ fullPath = <<>>
    /\ currentPosition = entrance
    /\ visited = 0
    /\ reached = <<>>
    /\ aislePos = Null
    /\ rpc = "visit"
    /\ path = <<>>
    /\ SearchIdle
    /\ SpeechIdle

\* what aislePositions can hold: the resolved aisles, null for an unresolved one
AislePositions == {aislePosition(aisle) : aisle \in Aisles}

\* variant: the builder moves to the waypoint although its segment is empty
VisitAisle_MovesAnyway ==
    /\ rpc = "visit"
    /\ visited < MaxWaypoints
    /\ \E a \in AislePositions :
         LET segmentPath == IF a = Null THEN <<>> ELSE findPath(currentPosition, a)
         IN  /\ aislePos' = a
             /\ IF a # Null
                THEN /\ fullPath' = fullPath \o pathToAdd(fullPath, segmentPath)
                     /\ currentPosition' = a
                     /\ reached' = IF Len(segmentPath) > 0 THEN Append(reached, a) ELSE reached
                ELSE UNCHANGED <<fullPath, currentPosition, reached>>
    /\ visited' = visited + 1
    /\ UNCHANGED <<grid, entrance, checkout, rpc, path>>
    /\ UNCHANGED searchVars
    /\ UNCHANGED speechVars

\* one iteration of the loop over aislePositions
VisitAisle ==
    /\ rpc = "visit"
    /\ visited < MaxWaypoints
    /\ \E a \in AislePositions :
         LET segmentPath == IF a = Null THEN <<>> ELSE findPath(currentPosition, a)
         IN  /\ aislePos' = a
             /\ IF a # Null /\ Len(segmentPath) > 0
                THEN /\ fullPath' = fullPath \o pathToAdd(fullPath, segmentPath)
                     /\ currentPosition' = a
                     /\ reached' = Append(reached, a)
                ELSE UNCHANGED <<fullPath, currentPosition, reached>>
    /\ visited' = visited + 1
    /\ UNCHANGED <<grid, entrance, checkout, rpc, path>>
    /\ UNCHANGED searchVars
    /\ UNCHANGED speechVars

\* the path to checkout, and setPath(fullPath)
Checkout ==
    /\ rpc = "visit"
    /\ LET checkoutPath == findPath(currentPosition, checkout)
           full == IF Len(checkoutPath) > 0
                   THEN fullPath \o checkoutToAdd(fullPath, checkoutPath)
                   ELSE fullPath
       IN  /\ fullPath' = full
           /\ path' = full
    /\ rpc' = "done"
    /\ UNCHANGED <<grid, entrance, checkout, currentPosition, visited, reached, aislePos>>
    /\ UNCHANGED searchVars
    /\ UNCHANGED speechVars

RouteNext == VisitAisle \/ Checkout

RouteSpec == RouteInit /\ [][RouteNext]_vars

\* ------------------------------------------------------------------------
\* DirectionsPanel: voice navigation
\* ------------------------------------------------------------------------
\* a walk of n cells to the right, as findPath returns it
StraightPath(n) ==
    addInstructions([i \in 1..n |->
        [position |-> Pos(i - 1, 0),
         direction |-> IF i = 1 THEN NoDirection ELSE "right",
         instruction |-> NoInstruction]])

\* the values the path prop takes
PanelPaths == {StraightPath(n) : n \in 0..MaxSteps}

RECURSIVE instructionSteps(_)
instructionSteps(p) ==
    IF p = <<>> THEN <<>>
    ELSE IF p[1].instruction # NoInstruction
         THEN <<p[1]>> \o instructionSteps(Tail(p))
    ELSE instructionSteps(Tail(p))

\* the strings handlePlay hands to speakInstructions
PlaySteps(p) == [i \in 1..Len(instructionSteps(p)) |-> instructionSteps(p)[i].instruction]

PanelState ==
    [isMuted |-> isMuted, isSpeaking |-> isSpeaking, playbacks |-> playbacks,
     synth |-> synth, timers |-> timers, spoken |-> spoken]

\* synth.cancel(): the queue is emptied. Whether the utterance that was being
\* spoken gets its end event depends on the browser: endFires is that choice,
\* and with it onend sets its timer.
cancel(st, endFires) ==
    [st EXCEPT !.synth = <<>>,
               !.timers = IF endFires /\ st.synth # <<>>
                          THEN @ \cup {st.synth[1].playback}
                          ELSE @]

stopSpeaking(st, endFires) == [cancel(st, endFires) EXCEPT !.isSpeaking = FALSE]

\* speakNext of playback k: idx and steps are the closure's own
speakNext(st, k) ==
    LET pb == st.playbacks[k]
    IN  IF pb.idx >= Len(pb.steps)
        THEN [st EXCEPT !.isSpeaking = FALSE]
        ELSE LET utter == [playback |-> k, idx |-> pb.idx, text |-> pb.steps[pb.idx + 1]]
             IN  [st EXCEPT !.synth = Append(@, utter),
                            !.spoken = Append(@, utter)]

speakInstructions(st, steps, id, endFires) ==
    IF st.isMuted \/ Len(steps) = 0 THEN st
    ELSE LET c == cancel(st, endFires)
             k == Len(st.playbacks) + 1
             started == [c EXCEPT !.isSpeaking = TRUE,
                                  !.playbacks = Append(@, [steps |-> steps,
                                                           idx |-> 0,
                                                           path |-> id])]
         IN  speakNext(started, k)

handlePlay(st, p, id, endFires) ==
    speakInstructions(stopSpeaking(st, endFires), PlaySteps(p), id, endFires)

\* the effect on [path, isMuted]
autoPlay(st, p, id, endFires) ==
    IF Len(p) > 0 /\ Len(instructionSteps(p)) > 0 /\ ~st.isMuted
    THEN handlePlay(st, p, id, endFires)
    ELSE stopSpeaking(st, endFires)

\* the panel state after a handler, while the bound on playbacks allows it
Commit(st) ==
    /\ Len(st.playbacks) <= MaxPlaybacks
    /\ isMuted' = st.isMuted
    /\ isSpeaking' = st.isSpeaking
    /\ playbacks' = st.playbacks
    /\ synth' = st.synth
    /\ timers' = st.timers
    /\ spoken' = st.spoken

SpeechInit ==
    /\ grid = [width |-> StoreWidth, height |-> StoreHeight, walkable |-> RouteCells]
    /\ SearchIdle
    /\ RouteIdle
    /\ SpeechIdle

\* a click on the Play button, which is rendered with a path and disabled
\* while isSpeaking or without instruction steps
PlayClick ==
    /\ Len(path) > 0
    /\ ~isSpeaking
    /\ Len(instructionSteps(path)) > 0
    /\ \E endFires \in BOOLEAN : Commit(handlePlay(PanelState, path, pathId, endFires))
    /\ UNCHANGED <<grid, pathId>>
    /\ UNCHANGED searchVars
    /\ UNCHANGED routeVars

\* a click on the mute button, and the effect its change of isMuted runs
handleMuteToggle ==
    /\ Len(path) > 0
    /\ \E endFires \in BOOLEAN :
         LET stopped == IF ~isMuted THEN stopSpeaking(PanelState, endFires) ELSE PanelState
             toggled == [stopped EXCEPT !.isMuted = ~isMuted]
         IN  Commit(autoPlay(toggled, path, pathId, endFires))
    /\ UNCHANGED <<grid, pathId>>
    /\ UNCHANGED searchVars
    /\ UNCHANGED routeVars

\* App sets a new path, and the effect its change runs
PathChange ==
    /\ pathId < MaxPaths
    /\ pathId' = pathId + 1
    /\ \E p \in PanelPaths, endFires \in BOOLEAN :
         /\ path' = p
         /\ Commit(autoPlay(PanelState, p, pathId + 1, endFires))
    /\ UNCHANGED <<grid, entrance, checkout, fullPath, currentPosition, visited, reached,
                   aislePos, rpc>>
    /\ UNCHANGED searchVars

\* the utterance being spoken ends: utter.onend sets its timer
UtteranceEnd ==
    /\ synth # <<>>
    /\ synth' = Tail(synth)
    /\ timers' = timers \cup {synth[1].playback}
    /\ UNCHANGED <<grid, isMuted, isSpeaking, pathId, playbacks, spoken>>
    /\ UNCHANGED searchVars
    /\ UNCHANGED routeVars

\* a timer of onend fires: idx++, speakNext()
TimerFire ==
    /\ \E k \in timers :
         Commit(speakNext([PanelState EXCEPT !.timers = @ \ {k},
                                             !.playbacks[k].idx = @ + 1], k))
    /\ UNCHANGED <<grid, pathId>>
    /\ UNCHANGED searchVars
    /\ UNCHANGED routeVars

SpeechNext == PlayClick \/ handleMuteToggle \/ PathChange \/ UtteranceEnd \/ TimerFire

SpeechSpec == SpeechInit /\ [][SpeechNext]_vars

\* ------------------------------------------------------------------------
\* Properties of findPath (checked under Spec)
\* ------------------------------------------------------------------------
\* the cells one move away from p: in the grid and walkable
OracleMoves(p) ==
    {q \in {Pos(p.x, p.y - 1), Pos(p.x, p.y + 1), Pos(p.x - 1, p.y), Pos(p.x + 1, p.y)} :
        /\ q.x \in 0..(grid.width - 1)
        /\ q.y \in 0..(grid.height - 1)
        /\ q \in grid.walkable}

\* breadth-first search: the number of moves of a shortest route from the
\* frontier to goal, -1 when there is none
RECURSIVE Bfs(_, _, _, _)
Bfs(frontier, seen, goal, d) ==
    IF goal \in frontier THEN d
    ELSE LET next == (UNION {OracleMoves(p) : p \in frontier}) \ seen
         IN  IF next = {} THEN -1 ELSE Bfs(next, seen \cup next, goal, d + 1)

ShortestLength(from, to) == Bfs({from}, {from}, to, 0)

Reachable(from, to) == ShortestLength(from, to) >= 0

Manhattan(a, b) == Abs(a.x - b.x) + Abs(a.y - b.y)

Coordinates(steps) == [i \in 1..Len(steps) |-> steps[i].position]

\* C1: a non-empty findPath result has as many moves as the shortest
\* 4-connected route from start to goal that breadth-first search finds on the
\* same grid.
C1_ShortestPath ==
    (pc = "done" /\ result # <<>>) => Len(result) - 1 = ShortestLength(start, end)

\* C2: findPath returns the empty sequence when the goal cannot be reached
\* from start by moves to walkable cells, and a non-empty one when it can.
C2_EmptyIffUnreachable ==
    pc = "done" => (result = <<>> <=> ~Reachable(start, end))

\* a walkable start walled off from a walkable goal
C2_Witness ==
    /\ pc = "done"
    /\ result = <<>>
    /\ start \in grid.walkable
    /\ end \in grid.walkable

\* C3: on a grid with every cell walkable the result has
\* ManhattanDistance(start, goal) + 1 steps.
C3_OpenGridManhattan ==
    (pc = "done" /\ grid.walkable = Rect(grid.width, grid.height))
        => Len(result) = Manhattan(start, end) + 1

\* an open grid, start and goal in different rows and columns
C3_Witness ==
    /\ pc = "done"
    /\ grid.walkable = Rect(grid.width, grid.height)
    /\ start.x # end.x
    /\ start.y # end.y
    /\ Len(result) >= 4

\* C4: findPath(start, start) returns exactly one step, at start, without a
\* direction.
C4_StartIsGoal ==
    (pc = "done" /\ start = end)
        => /\ Len(result) = 1
           /\ result[1].position = start
           /\ result[1].direction = NoDirection

\* a search from a cell to itself has returned; the cell is not even walkable
C4_Witness ==
    /\ pc = "done"
    /\ start = end
    /\ start \notin grid.walkable
    /\ Len(result) = 1

\* the direction the coordinate change from a to b stands for, rows first
DeltaDirection(a, b) ==
    CASE b.y < a.y -> "up"
      [] b.y > a.y -> "down"
      [] b.y = a.y /\ b.x < a.x -> "left"
      [] OTHER -> "right"

\* C9: step 0 of a result has no direction; the direction of step i > 0 is up
\* when the row decreased from step i-1, else down when it increased, else
\* left when the column decreased, else right.
C9_DirectionFollowsDelta ==
    pc = "done" =>
        \A i \in 1..Len(result) :
            IF i = 1 THEN result[i].direction = NoDirection
            ELSE result[i].direction =
                    DeltaDirection(result[i - 1].position, result[i].position)

\* a result that moves both vertically and horizontally
C9_Witness ==
    /\ pc = "done"
    /\ \E i, j \in 2..Len(result) :
          /\ result[i].direction \in {"up", "down"}
          /\ result[j].direction \in {"left", "right"}

\* C10: in a result of two or more steps the first instruction is the start
\* phrase, the last is the arrival phrase, and every step has an instruction.
C10_StartAndArrivalPhrases ==
    (pc = "done" /\ Len(result) >= 2)
        => /\ result[1].instruction = "Start from entrance"
           /\ result[Len(result)].instruction = "Arrive at checkout"
           /\ \A i \in 1..Len(result) : result[i].instruction # NoInstruction

\* a result with steps between the first and the last
C10_Witness ==
    /\ pc = "done"
    /\ Len(result) >= 3
    /\ result[2].instruction \notin {"Start from entrance", "Arrive at checkout"}

\* C11 as stated: a start or goal that is in the grid but not walkable makes
\* findPath return the empty sequence.
C11_NonWalkableIsNoPath ==
    (pc = "done" /\ (start \notin grid.walkable \/ end \notin grid.walkable))
        => result = <<>>

\* C11 as the code has it: a goal that is not walkable and is not the start
\* gives the empty sequence; a start that is not walkable is searched like any
\* other cell, so it gives the single step when it is the goal and otherwise a
\* path exactly when the goal can be reached from it by moves to walkable cells.
C11_NonWalkableGoalIsNoPath ==
    /\ (pc = "done" /\ end \notin grid.walkable /\ end # start) => result = <<>>
    /\ (pc = "done" /\ start \notin grid.walkable)
          => /\ result = <<>> <=> ~Reachable(start, end)
             /\ result # <<>> => result[1].position = start

\* a search from a walkable start to a blocked goal has looked at other cells
\* and returned
C11_Witness ==
    /\ pc = "done"
    /\ start \in grid.walkable
    /\ end \notin grid.walkable
    /\ Cardinality(closedSet) > 1

Range(seq) == {seq[i] : i \in 1..Len(seq)}

\* the nodes of openSet that a step of the loop removes and closes
Expanded == {c \in Range(openSet) : Key(nodes[c].position) \in closedSet' \ closedSet}

\* C13: when the loop expands a node that has a walkable neighbour which is not
\* closed and is in openSet with a gCost above the expanded node's gCost + 1,
\* the openSet node of that coordinate has afterwards that lower gCost,
\* fCost = gCost + hCost and the expanded node as its parent.
C13_OpenNodeImproved ==
    [][\A c \in Expanded : \A p \in OracleMoves(nodes[c].position) :
          \A k \in Range(openSet) :
             (/\ nodes[c].position # end
              /\ nodes[k].position = p
              /\ Key(p) \notin closedSet
              /\ nodes[c].gCost + 1 < nodes[k].gCost)
             => \A n \in Range(openSet') :
                   nodes'[n].position = p
                       => /\ nodes'[n].gCost = nodes[c].gCost + 1
                          /\ nodes'[n].fCost = nodes'[n].gCost + Manhattan(p, end)
                          /\ nodes'[n].parent = c]_vars

\* two coordinates one move apart: 1 apart in exactly one of column and row
OneMoveApart(a, b) ==
    \/ Abs(a.x - b.x) = 1 /\ a.y = b.y
    \/ Abs(a.y - b.y) = 1 /\ a.x = b.x

\* C14: a non-empty result is a simple path of the grid: it starts at start,
\* ends at goal, moves one cell along one axis per step, every step after the
\* first is a walkable cell of the grid, and no coordinate occurs twice.
C14_ValidSimplePath ==
    (pc = "done" /\ result # <<>>)
        => /\ result[1].position = start
           /\ result[Len(result)].position = end
           /\ \A i \in 2..Len(result) :
                 /\ OneMoveApart(result[i - 1].position, result[i].position)
                 /\ result[i].position.x \in 0..(grid.width - 1)
                 /\ result[i].position.y \in 0..(grid.height - 1)
                 /\ result[i].position \in grid.walkable
           /\ \A i, j \in 1..Len(result) :
                 result[i].position = result[j].position => i = j

\* a result that goes round a blocked cell
C14_Witness ==
    /\ pc = "done"
    /\ grid.walkable # Rect(grid.width, grid.height)
    /\ Len(result) > Manhattan(start, end) + 1

\* the place of node n in the order of expansion, 0 when it is not expanded
ExpansionIndex(n) ==
    IF n \in Range(expanded) THEN CHOOSE i \in 1..Len(expanded) : expanded[i] = n ELSE 0

\* C15: findPath terminates: a coordinate is removed from openSet and closed at
\* most once, a closed coordinate is never in openSet again, openSet never has
\* two nodes of one coordinate, so the loop runs at most width * height times;
\* the parent links form a tree rooted at the start node, and every parent was
\* expanded strictly before its child.
C15_BoundedLoopAndParentTree ==
    /\ \A i, j \in 1..Len(expanded) :
          nodes[expanded[i]].position = nodes[expanded[j]].position => i = j
    /\ closedSet = {Key(nodes[n].position) : n \in Range(expanded)}
    /\ \A n \in Range(openSet) : Key(nodes[n].position) \notin closedSet
    /\ \A i, j \in 1..Len(openSet) :
          nodes[openSet[i]].position = nodes[openSet[j]].position => i = j
    /\ Len(expanded) <= grid.width * grid.height
    /\ pc = "loop" => Range(openSet) \cup Range(expanded) = 1..Len(nodes)
    /\ pc = "loop" => /\ nodes[1].position = start
                      /\ nodes[1].parent = 0
    /\ \A n \in 2..Len(nodes) :
          /\ nodes[n].parent \in 1..(n - 1)
          /\ ExpansionIndex(nodes[n].parent) > 0
          /\ ExpansionIndex(n) > 0 => ExpansionIndex(nodes[n].parent) < ExpansionIndex(n)

\* a search that has closed every walkable cell of its grid and returned
C15_Witness ==
    /\ pc = "done"
    /\ result = <<>>
    /\ Len(expanded) >= 4
    /\ Len(expanded) = grid.width * grid.height - 1
    /\ Len(nodes) = Len(expanded)

\* C16: at every point of a findPath execution the start node has g = 0, and
\* every other node that is in openSet or was expanded has g equal to its
\* parent's g plus 1 and f equal to g plus the Manhattan distance from its
\* coordinate to the goal.
C16_CostsFollowParent ==
    \A n \in Range(openSet) \cup Range(expanded) :
        IF nodes[n].position = start
        THEN nodes[n].gCost = 0
        ELSE /\ nodes[n].parent \in 1..Len(nodes)
             /\ nodes[n].gCost = nodes[nodes[n].parent].gCost + 1
             /\ nodes[n].fCost = nodes[n].gCost + Manhattan(nodes[n].position, end)

\* mid-search: a node two moves from the start is open, another one is expanded
C16_Witness ==
    /\ pc = "loop"
    /\ \E n \in Range(openSet) : nodes[n].gCost >= 2
    /\ \E n \in Range(expanded) : nodes[n].gCost >= 1

\* ------------------------------------------------------------------------
\* Properties of generateRoute (checked under RouteSpec)
\* ------------------------------------------------------------------------
\* C5: the assembled route has no two consecutive steps with the same
\* coordinate, whatever the aisles.
C5_NoRepeatedCoordinate ==
    /\ \A i \in 1..(Len(fullPath) - 1) : fullPath[i].position # fullPath[i + 1].position
    /\ \A i \in 1..(Len(path) - 1) : path[i].position # path[i + 1].position

\* a route stitched from three segments of more than one step each
C5_Witness ==
    /\ rpc = "done"
    /\ Len(reached) = 2
    /\ reached[1] # entrance
    /\ reached[2] # reached[1]
    /\ checkout # reached[2]
    /\ Len(path) >= 4

\* C6: a non-empty route starts at the anchor, also when the segment to the
\* exit is the first one appended.
C6_StartsAtAnchor ==
    (rpc = "done" /\ path # <<>>) => path[1].position = entrance

\* C7: when the exit can be reached from a walkable anchor the route is not
\* empty and ends at the exit.
C7_EndsAtExit ==
    (rpc = "done" /\ entrance \in grid.walkable /\ Reachable(entrance, checkout))
        => /\ path # <<>>
           /\ path[Len(path)].position = checkout

\* C8: every reached aisle position occurs in the route, and of two reached
\* positions the earlier one of the input occurs at an index not greater than
\* an occurrence of the later one.
C8_WaypointsInOrder ==
    /\ \A i \in 1..Len(reached) :
          \E k \in 1..Len(fullPath) : fullPath[k].position = reached[i]
    /\ \A i, j \in 1..Len(reached) :
          i < j => \E a, b \in 1..Len(fullPath) :
                      /\ a <= b
                      /\ fullPath[a].position = reached[i]
                      /\ fullPath[b].position = reached[j]
    /\ rpc = "done" => path = fullPath

\* the route of two different reached aisles has been set
C8_Witness ==
    /\ rpc = "done"
    /\ Len(reached) >= 2
    /\ reached[1] # reached[2]
    /\ path # <<>>

\* the scan of the resolver written out: radius 1 to 5, then the column offset,
\* then the row offset
ScanPoints ==
    {t \in (1..5) \X (-5..5) \X (-5..5) : Abs(t[2]) <= t[1] /\ Abs(t[3]) <= t[1]}

ScanCell(centre, t) == Pos(centre.x + t[2], centre.y + t[3])

\* scan point t is met no later than scan point u
MetFirst(t, u) ==
    \/ t[1] < u[1]
    \/ t[1] = u[1] /\ t[2] < u[2]
    \/ t[1] = u[1] /\ t[2] = u[2] /\ t[3] <= u[3]

InStoreWalkable(q) ==
    q.x >= 0 /\ q.x < 20 /\ q.y >= 0 /\ q.y < 15 /\ q \in grid.walkable

Chebyshev(a, b) ==
    IF Abs(a.x - b.x) > Abs(a.y - b.y) THEN Abs(a.x - b.x) ELSE Abs(a.y - b.y)

\* the aisle position of centre is the first walkable store cell of the scan,
\* and null exactly when no walkable store cell is within distance 5
ResolvedAsScanned(centre) ==
    LET p == aislePosition(centre)
        met == {t \in ScanPoints : InStoreWalkable(ScanCell(centre, t))}
    IN  /\ IF met = {} THEN p = Null
           ELSE \E t \in met : /\ \A u \in met : MetFirst(t, u)
                               /\ p = ScanCell(centre, t)
        /\ p = Null <=> ~\E q \in grid.walkable :
                            InStoreWalkable(q) /\ Chebyshev(q, centre) <= 5

\* a step of the aisle loop that took an unresolved aisle leaves the route, the
\* current position and the reached aisles as they were, and the call goes on
\* (the path to checkout is still to come)
UnresolvedIsSkipped ==
    (rpc = "visit" /\ visited' = visited + 1 /\ aislePos' = Null)
        => /\ fullPath' = fullPath
           /\ currentPosition' = currentPosition
           /\ reached' = reached
           /\ rpc' = "visit"

C17_InstructionsOfWholeRoute ==
    (rpc = "done" /\ Len(path) >= 2 /\ Len(reached) >= 1)
        => \A i \in 1..Len(path) :
              /\ path[i].instruction = addInstructions(path)[i].instruction
              /\ path[i].instruction = "Start from entrance" => i = 1
              /\ path[i].instruction = "Arrive at checkout" => i = Len(path)

\* a step of the loop over the waypoints whose segment search returned empty
\* changes neither the route nor the current position, and the build goes on
EmptySegmentIsSkipped ==
    (/\ rpc = "visit"
     /\ visited' = visited + 1
     /\ aislePos' # Null
     /\ findPath(currentPosition, aislePos') = <<>>)
        => /\ fullPath' = fullPath
           /\ currentPosition' = currentPosition
           /\ reached' = reached
           /\ rpc' = "visit"

\* the segment after a skipped waypoint is searched from the position the
\* builder had: the step that ends the build appends the path from
\* currentPosition to the checkout and nothing else
NextSegmentFromCurrent ==
    (rpc = "visit" /\ rpc' = "done")
        => LET checkoutPath == findPath(currentPosition, checkout)
           IN  /\ Len(fullPath') <= Len(fullPath) + Len(checkoutPath)
               /\ \A i \in 1..(Len(fullPath') - Len(fullPath)) :
                     fullPath'[Len(fullPath) + i] =
                         checkoutPath[Len(checkoutPath) - (Len(fullPath') - Len(fullPath)) + i]
               /\ path' = fullPath'

\* C18: when the search for a waypoint segment returns empty, the route and the
\* current position stay as they were, the next segment is searched from that
\* same position, and the build completes.
C18_EmptySegmentKeepsPosition ==
    /\ [][EmptySegmentIsSkipped]_vars
    /\ [][NextSegmentFromCurrent]_vars
    /\ [](rpc = "visit" => currentPosition \in {entrance} \cup Range(reached))

\* a finished build whose last waypoint was resolved and skipped, after an
\* earlier waypoint was reached
C18_Witness ==
    /\ rpc = "done"
    /\ Len(reached) >= 1
    /\ aislePos \notin {Null, currentPosition}
    /\ path # <<>>
    /\ path[Len(path)].position = checkout

\* every two consecutive steps of a route are one move apart
NoJump(route) ==
    \A i \in 1..(Len(route) - 1) : OneMoveApart(route[i].position, route[i + 1].position)

\* C19 as stated: consecutive steps of the route are 4-adjacent, and after each
\* segment is processed a non-empty route's last coordinate is the builder's
\* current position.
C19_NoJumpAndLastIsCurrent ==
    /\ NoJump(fullPath)
    /\ fullPath # <<>> => fullPath[Len(fullPath)].position = currentPosition

\* C19 as the code has it: consecutive steps of the route are 4-adjacent; after
\* each waypoint segment a non-empty route's last coordinate is the builder's
\* current position; the checkout segment does not update the current
\* position, and after it a non-empty route ends at the checkout when the
\* checkout search returned a path and at the current position otherwise.
C19_NoJumpLastIsCurrentInLoop ==
    /\ NoJump(fullPath)
    /\ NoJump(path)
    /\ (rpc = "visit" /\ fullPath # <<>>)
          => fullPath[Len(fullPath)].position = currentPosition
    /\ (rpc = "done" /\ path # <<>>)
          => path[Len(path)].position =
                IF findPath(currentPosition, checkout) # <<>> THEN checkout
                ELSE currentPosition

\* a finished route through one reached waypoint, with another waypoint
\* skipped, that ends at a checkout away from the last waypoint
C19_Witness ==
    /\ rpc = "done"
    /\ visited = 2
    /\ Len(reached) = 1
    /\ Len(path) >= 3
    /\ path[Len(path)].position = checkout
    /\ checkout # currentPosition

\* ------------------------------------------------------------------------
\* Properties of DirectionsPanel (checked under SpeechSpec)
\* ------------------------------------------------------------------------
\* C20: while the panel is muted no instruction is spoken: between a mute
\* toggle and the next unmute no utterance is handed to the synthesizer,
\* whatever the order of clicks, path changes, utterance ends and timers.
C20_SilentWhileMuted ==
    [][(isMuted /\ isMuted') => spoken' = spoken]_vars

\* the utterances of one playback come in route order, each once, and those of
\* an earlier playback all come before those of a later one
SpokenInOrder ==
    \A i, j \in 1..Len(spoken) :
        i < j => \/ spoken[i].playback < spoken[j].playback
                 \/ /\ spoken[i].playback = spoken[j].playback
                    /\ spoken[i].idx < spoken[j].idx

\* an utterance handed to the synthesizer is an instruction of the playback
\* started last, and that playback reads the current path
SpokenByLatestPlayback ==
    spoken' # spoken
        => LET utter == spoken'[Len(spoken')]
           IN  /\ utter.playback = Len(playbacks')
               /\ playbacks'[utter.playback].path = pathId'
               /\ utter.text = PlaySteps(path')[utter.idx + 1]

\* C21: narration speaks the instructions of the current path in route order,
\* each at most once per playback; once playback is restarted, by a play click
\* or by a path change, the earlier playback starts no further utterance, so
\* the utterances of two playbacks are never interleaved.
C21_NoInterleavedPlaybacks ==
    /\ []SpokenInOrder
    /\ [][SpokenByLatestPlayback]_vars

====
